---------------------------- MODULE Spec2Model ----------------------------
(***************************************************************************)
(* Maven Roasters sales dashboard (src/app.py).                           *)
(*                                                                         *)
(* One invocation of main() is one pass of the script: load the table,    *)
(* read the sidebar widgets, filter, then compute and draw each view.     *)
(* The widget values live in the session and survive from pass to pass;   *)
(* every other name is a local of main() and is rebound in each pass.     *)
(*                                                                         *)
(* Representation.                                                         *)
(*   - a table is a sequence of records (one record per row);             *)
(*   - a timestamp is a number of seconds since 1970-01-01 00:00:00;      *)
(*   - a calendar date is a number of days since 1970-01-01;              *)
(*   - money is a whole number of cents, so sums are exact;               *)
(*   - a mean is the fraction [num, den]; NaN is the fraction 0/0;        *)
(*   - categorical strings (store, category, product type) are codes      *)
(*     1, 2, ... ordered like the strings they stand for;                 *)
(*   - transaction_time is the sequence of its characters (digits).       *)
(***************************************************************************)
EXTENDS Integers, Sequences, FiniteSets, TLC

\* ------------------------------------------------------------------------
\* Bounds of the model and constants of the program
\* ------------------------------------------------------------------------

\* Longest table drawn from RowPool.
MaxRows == 3

\* Largest number of product types of a catalogue table (above TopN).
MaxProducts == 11

\* pd.Timedelta(days=1), in seconds.
SecondsPerDay == 86400

\* nlargest(10, 'total_price').
TopN == 10

\* ------------------------------------------------------------------------
\* Sequences
\* ------------------------------------------------------------------------

Min2(a, b) == IF a <= b THEN a ELSE b

\* s[:n]
Head_n(s, n) == SubSeq(s, 1, Min2(n, Len(s)))

RECURSIVE SumSeq(_)
SumSeq(s) == IF s = <<>> THEN 0 ELSE Head(s) + SumSeq(Tail(s))

\* Series.unique(): the distinct values in order of first appearance.
RECURSIVE Unique(_)
Unique(s) ==
  IF s = <<>> THEN <<>>
  ELSE LET rest == Unique(SubSeq(s, 1, Len(s) - 1))
           x == s[Len(s)]
       IN IF \E i \in DOMAIN rest : rest[i] = x THEN rest ELSE Append(rest, x)

\* Series.nunique()
Nunique(s) == Len(Unique(s))

NaN == [num |-> 0, den |-> 0]

\* Series.mean(): NaN over no values.
Mean(s) == IF s = <<>> THEN NaN ELSE [num |-> SumSeq(s), den |-> Len(s)]

\* Lexicographic order of two keys (tuples of numbers); a proper prefix
\* is smaller, as for strings.
RECURSIVE KeyLess(_, _)
KeyLess(a, b) ==
  IF b = <<>> THEN FALSE
  ELSE IF a = <<>> THEN TRUE
  ELSE IF Head(a) < Head(b) THEN TRUE
  ELSE IF Head(a) > Head(b) THEN FALSE
  ELSE KeyLess(Tail(a), Tail(b))

\* Insert key k in a sorted sequence of distinct keys.
RECURSIVE InsertKey(_, _)
InsertKey(k, s) ==
  IF s = <<>> THEN <<k>>
  ELSE IF k = Head(s) THEN s
  ELSE IF KeyLess(k, Head(s)) THEN <<k>> \o s
  ELSE <<Head(s)>> \o InsertKey(k, Tail(s))

\* The group keys of a groupby (sort=True): distinct, ascending.
RECURSIVE GroupKeys(_)
GroupKeys(keys) ==
  IF keys = <<>> THEN <<>>
  ELSE InsertKey(Head(keys), GroupKeys(Tail(keys)))

\* The rows of table t whose key (keys[i] is the key of row i) is k.
RECURSIVE RowsOfKey(_, _, _)
RowsOfKey(t, keys, k) ==
  IF t = <<>> THEN <<>>
  ELSE IF Head(keys) = k
       THEN <<Head(t)>> \o RowsOfKey(Tail(t), Tail(keys), k)
       ELSE RowsOfKey(Tail(t), Tail(keys), k)

\* A column of a table.
ColTotalPrice(t) == [i \in DOMAIN t |-> t[i].total_price]
ColTransactionId(t) == [i \in DOMAIN t |-> t[i].transaction_id]
ColTransactionQty(t) == [i \in DOMAIN t |-> t[i].transaction_qty]
ColTransactionDate(t) == [i \in DOMAIN t |-> t[i].transaction_date]
ColStoreLocation(t) == [i \in DOMAIN t |-> t[i].store_location]


\* ------------------------------------------------------------------------
\* Dates
\* ------------------------------------------------------------------------

\* pd.to_datetime of a date: midnight of that day.
ToDatetime(day) == day * SecondsPerDay

\* pd.to_datetime of the text of a CSV cell, a date with an optional time
\* of day: cell.day days and cell.secs seconds.
ParseDatetime(cell) == cell.day * SecondsPerDay + cell.secs

\* Timestamp.date()
DateOf(ts) == ts \div SecondsPerDay

\* Timestamp.normalize() / Series.dt.normalize(): the time of day set to 0.
Normalize(ts) == ts - (ts % SecondsPerDay)

day_order ==
  <<"Monday", "Tuesday", "Wednesday", "Thursday", "Friday", "Saturday", "Sunday">>

\* Timestamp.day_name(): 1970-01-01 was a Thursday.
DayName(ts) == day_order[((DateOf(ts) + 3) % 7) + 1]

\* The weekday names in the order a groupby sorts them.
DayNamesSorted ==
  <<"Friday", "Monday", "Saturday", "Sunday", "Thursday", "Tuesday", "Wednesday">>

DayNameKey(name) == <<CHOOSE i \in 1..7 : DayNamesSorted[i] = name>>

\* ------------------------------------------------------------------------
\* load_data
\* ------------------------------------------------------------------------

LoadRow(raw) ==
  [transaction_id |-> raw.transaction_id,
   transaction_date |-> ParseDatetime(raw.transaction_date),
   transaction_time |-> raw.transaction_time,
   store_location |-> raw.store_location,
   product_category |-> raw.product_category,
   product_type |-> raw.product_type,
   transaction_qty |-> raw.transaction_qty,
   unit_price |-> raw.unit_price,
   total_price |-> raw.transaction_qty * raw.unit_price]

load_data(file) == [i \in DOMAIN file |-> LoadRow(file[i])]

\* ------------------------------------------------------------------------
\* Filter
\* ------------------------------------------------------------------------

\* The row mask of lines 66-70 with the row date compared as read, its time
\* of day kept.
FilterMaskRaw(row, start, end, stores) ==
  /\ row.transaction_date >= Normalize(start)
  /\ row.transaction_date <= Normalize(end)
  /\ row.store_location \in stores

\* The row mask of lines 66-70 with an empty store selection read as "every
\* store".
FilterMaskEmptyIsAll(row, start, end, stores) ==
  /\ Normalize(row.transaction_date) >= Normalize(start)
  /\ Normalize(row.transaction_date) <= Normalize(end)
  /\ (stores = {} \/ row.store_location \in stores)

\* The row mask of lines 66-70.
FilterMask(row, start, end, stores) ==
  /\ Normalize(row.transaction_date) >= Normalize(start)
  /\ Normalize(row.transaction_date) <= Normalize(end)
  /\ row.store_location \in stores

\* df[mask]: a new table holding the rows of t the mask keeps, in order.
RECURSIVE FilterRows(_, _, _, _)
FilterRows(t, start, end, stores) ==
  IF t = <<>> THEN <<>>
  ELSE IF FilterMask(Head(t), start, end, stores)
       THEN <<Head(t)>> \o FilterRows(Tail(t), start, end, stores)
       ELSE FilterRows(Tail(t), start, end, stores)

\* ------------------------------------------------------------------------
\* Aggregations
\* ------------------------------------------------------------------------

\* The four top-level metrics (lines 83-93) with the average taken per
\* distinct transaction.
KpiPerTransaction(t) ==
  [total_revenue |-> SumSeq(ColTotalPrice(t)),
   total_transactions |-> Nunique(ColTransactionId(t)),
   avg_transaction_value |->
     IF t = <<>> THEN NaN
     ELSE [num |-> SumSeq(ColTotalPrice(t)), den |-> Nunique(ColTransactionId(t))],
   total_items |-> SumSeq(ColTransactionQty(t))]

\* The four top-level metrics (lines 83-93).
Kpi(t) ==
  [total_revenue |-> SumSeq(ColTotalPrice(t)),
   total_transactions |-> Nunique(ColTransactionId(t)),
   avg_transaction_value |-> Mean(ColTotalPrice(t)),
   total_items |-> SumSeq(ColTransactionQty(t))]

DateKeys(t) == [i \in DOMAIN t |-> <<t[i].transaction_date>>]

\* create_daily_metrics with 'count' in place of 'nunique'.
create_daily_metrics_count(t) ==
  LET keys == DateKeys(t)
      groups == GroupKeys(keys)
  IN [g \in DOMAIN groups |->
        LET rows == RowsOfKey(t, keys, groups[g])
        IN [transaction_date |-> groups[g][1],
            total_price |-> SumSeq(ColTotalPrice(rows)),
            transaction_id |-> Len(rows),
            transaction_qty |-> SumSeq(ColTransactionQty(rows))]]

create_daily_metrics(t) ==
  LET keys == DateKeys(t)
      groups == GroupKeys(keys)
  IN [g \in DOMAIN groups |->
        LET rows == RowsOfKey(t, keys, groups[g])
        IN [transaction_date |-> groups[g][1],
            total_price |-> SumSeq(ColTotalPrice(rows)),
            transaction_id |-> Nunique(ColTransactionId(rows)),
            transaction_qty |-> SumSeq(ColTransactionQty(rows))]]

ProductKeys(t) == [i \in DOMAIN t |-> <<t[i].product_category, t[i].product_type>>]

\* create_product_metrics with 'first' in place of 'sum' for total_price.
create_product_metrics_first(t) ==
  LET keys == ProductKeys(t)
      groups == GroupKeys(keys)
  IN [g \in DOMAIN groups |->
        LET rows == RowsOfKey(t, keys, groups[g])
        IN [product_category |-> groups[g][1],
            product_type |-> groups[g][2],
            total_price |-> rows[1].total_price,
            transaction_id |-> Len(rows),
            transaction_qty |-> SumSeq(ColTransactionQty(rows))]]

create_product_metrics(t) ==
  LET keys == ProductKeys(t)
      groups == GroupKeys(keys)
  IN [g \in DOMAIN groups |->
        LET rows == RowsOfKey(t, keys, groups[g])
        IN [product_category |-> groups[g][1],
            product_type |-> groups[g][2],
            total_price |-> SumSeq(ColTotalPrice(rows)),
            transaction_id |-> Len(rows),
            transaction_qty |-> SumSeq(ColTransactionQty(rows))]]

\* Insert row r in s, sorted by total_price descending, after the rows of s
\* that have the same total_price.
RECURSIVE InsertDesc(_, _)
InsertDesc(r, s) ==
  IF s = <<>> THEN <<r>>
  ELSE IF Head(s).total_price >= r.total_price
       THEN <<Head(s)>> \o InsertDesc(r, Tail(s))
       ELSE <<r>> \o s

\* t sorted by total_price descending, rows of equal total_price in their
\* order in t.
RECURSIVE SortDesc(_)
SortDesc(t) ==
  IF t = <<>> THEN <<>>
  ELSE InsertDesc(t[Len(t)], SortDesc(SubSeq(t, 1, Len(t) - 1)))

\* nlargest that keeps every row.
nlargest_all(n, t) == SortDesc(t)

\* DataFrame.nlargest(n, 'total_price'), keep='first'.
nlargest(n, t) == Head_n(SortDesc(t), n)

StoreKeys(t) == [i \in DOMAIN t |-> <<t[i].store_location>>]

\* The store grouping of lines 163-167.
StoreMetrics(t) ==
  LET keys == StoreKeys(t)
      groups == GroupKeys(keys)
  IN [g \in DOMAIN groups |->
        LET rows == RowsOfKey(t, keys, groups[g])
        IN [store_location |-> groups[g][1],
            total_price |-> SumSeq(ColTotalPrice(rows)),
            transaction_id |-> Nunique(ColTransactionId(rows)),
            transaction_qty |-> SumSeq(ColTransactionQty(rows))]]

\* transaction_time.str[:2]
HourKeys(t) == [i \in DOMAIN t |-> Head_n(t[i].transaction_time, 2)]

\* The hourly averages of lines 193-196; the groupby already sorts by the
\* hour key, and sort_values keeps that order.
HourlyData(t) ==
  LET keys == HourKeys(t)
      groups == GroupKeys(keys)
  IN [g \in DOMAIN groups |->
        LET rows == RowsOfKey(t, keys, groups[g])
        IN [transaction_time |-> groups[g],
            total_price |-> Mean(ColTotalPrice(rows))]]

WeekdayKeys(t) == [i \in DOMAIN t |-> DayNameKey(DayName(t[i].transaction_date))]

\* groupby('day_of_week')['total_price'].mean()
WeekdayMeans(t) ==
  LET keys == WeekdayKeys(t)
      groups == GroupKeys(keys)
  IN [g \in DOMAIN groups |->
        LET rows == RowsOfKey(t, keys, groups[g])
        IN [day_of_week |-> DayNamesSorted[groups[g][1]],
            total_price |-> Mean(ColTotalPrice(rows))]]

\* Series.reindex(labels): one row per label, in the order of labels; the
\* value of a label the series lacks is NaN.
Reindex(series, labels) ==
  [i \in DOMAIN labels |->
     IF \E g \in DOMAIN series : series[g].day_of_week = labels[i]
     THEN LET g == CHOOSE g \in DOMAIN series : series[g].day_of_week = labels[i]
          IN series[g]
     ELSE [day_of_week |-> labels[i], total_price |-> NaN]]

\* The day-of-week view without the reindex: only the weekdays that have rows.
DailyPatternsNoReindex(t) == WeekdayMeans(t)

\* The day-of-week view of lines 216-219.
DailyPatterns(t) == Reindex(WeekdayMeans(t), day_order)

\* ------------------------------------------------------------------------
\* The contents of 'Coffee Shop Sales.csv'
\* ------------------------------------------------------------------------

RawRow(id, day, secs, time, store, cat, type, qty, price) ==
  [transaction_id |-> id,
   transaction_date |-> [day |-> day, secs |-> secs],
   transaction_time |-> time,
   store_location |-> store,
   product_category |-> cat,
   product_type |-> type,
   transaction_qty |-> qty,
   unit_price |-> price]

\* The rows small tables are made of.  Rows 1 and 2 are the example of the
\* specification (Latte 2 x 3.00 in store 1, Chai 1 x 5.00 in store 2, on a
\* Thursday).  Transaction 1 is also on the next day (row 3); rows 4 and 6
\* carry a time of day; product type 1 is under categories 1 and 2 (rows 1
\* and 5); row 4 earns what row 2 earns; the time of row 4 is one character.
RowPool ==
  <<RawRow(1, 0, 0, <<0, 9, 3, 0>>, 1, 1, 1, 2, 300),
    RawRow(2, 0, 0, <<1, 0, 3, 0>>, 2, 2, 2, 1, 500),
    RawRow(1, 1, 0, <<0, 9, 1, 5>>, 1, 1, 1, 1, 300),
    RawRow(3, 1, SecondsPerDay - 1, <<7>>, 2, 1, 3, 2, 250),
    RawRow(2, 2, 0, <<1, 0, 4, 5>>, 1, 2, 1, 3, 100),
    RawRow(3, 2, 1, <<0, 9, 0, 0>>, 2, 2, 2, 1, 450)>>

RECURSIVE SeqsUpTo(_, _)
SeqsUpTo(S, n) ==
  IF n = 0 THEN {<<>>}
  ELSE LET shorter == SeqsUpTo(S, n - 1)
       IN shorter \cup {Append(s, x) : s \in shorter, x \in S}

\* Every table of at most MaxRows rows of RowPool.
SmallTables ==
  {[i \in DOMAIN s |-> RowPool[s[i]]] : s \in SeqsUpTo(DOMAIN RowPool, MaxRows)}

\* A catalogue: one row per product type 1..n, all on one day in store 1.
\* Types 1..4 earn 4.00 and type i > 4 earns i.00, but the types in boosted
\* earn 13.00.
CatalogueTable(n, boosted) ==
  [i \in 1..n |->
     RawRow(i, 0, 0, <<0, 8, 0, 0>>, 1, 1 + (i % 2), i, 1,
            IF i \in boosted THEN 1300 ELSE IF i <= 4 THEN 400 ELSE 100 * i)]

CatalogueTables ==
  {CatalogueTable(n, b) : n \in (TopN - 1)..MaxProducts, b \in SUBSET (1..3)}

Files == SmallTables \cup CatalogueTables

\* ------------------------------------------------------------------------
\* State
\* ------------------------------------------------------------------------

VARIABLES
  csv,              \* the rows of 'Coffee Shop Sales.csv'
  pc,               \* where main() stands
  trigger,          \* what started this pass
  date_range,       \* session: the value of the date-range widget
  selected_stores,  \* session: the value of the store multiselect
  widgets,          \* session: the widgets that hold a value
  df,               \* locals of main(), below
  min_date,
  max_date,
  start_date,
  end_date,
  filtered_df,
  kpi,
  daily_sales,
  product_metrics,
  top_products,
  store_metrics,
  hourly_data,
  daily_patterns,
  locals,           \* the names main() has bound in this pass
  rendered,         \* the elements this pass has put on the page, in order
  outcome,          \* how the pass ended
  loaded            \* history: <<the table load_data() first returned>>

vars ==
  <<csv, pc, trigger, date_range, selected_stores, widgets, df, min_date,
    max_date, start_date, end_date, filtered_df, kpi, daily_sales,
    product_metrics, top_products, store_metrics, hourly_data, daily_patterns,
    locals, rendered, outcome, loaded>>

session == <<date_range, selected_stores, widgets>>

aggregates ==
  <<kpi, daily_sales, product_metrics, top_products, store_metrics,
    hourly_data, daily_patterns>>

NoKpi ==
  [total_revenue |-> 0, total_transactions |-> 0,
   avg_transaction_value |-> NaN, total_items |-> 0]

Elements(seq) == {seq[i] : i \in DOMAIN seq}

MinOf(S) == CHOOSE x \in S : \A y \in S : x <= y
MaxOf(S) == CHOOSE x \in S : \A y \in S : x >= y

\* What st.sidebar.date_input can return for a range between lo and hi: the
\* two dates of a range, or the first date alone while the user has picked
\* only the start of a new range.
DateInputValues(lo, hi) ==
  {<<a>> : a \in lo..hi}
    \cup UNION {{<<a, b>> : b \in a..hi} : a \in lo..hi}

\* The state of the locals when main() is entered: nothing bound yet.
FreshLocals ==
  /\ df' = <<>>
  /\ min_date' = 0
  /\ max_date' = 0
  /\ start_date' = 0
  /\ end_date' = 0
  /\ filtered_df' = <<>>
  /\ kpi' = NoKpi
  /\ daily_sales' = <<>>
  /\ product_metrics' = <<>>
  /\ top_products' = <<>>
  /\ store_metrics' = <<>>
  /\ hourly_data' = <<>>
  /\ daily_patterns' = <<>>
  /\ locals' = {}
  /\ rendered' = <<>>
  /\ outcome' = "running"

Init ==
  /\ csv \in Files
  /\ pc = "start"
  /\ trigger = "first run"
  /\ date_range = <<>>
  /\ selected_stores = {}
  /\ widgets = {}
  /\ df = <<>>
  /\ min_date = 0
  /\ max_date = 0
  /\ start_date = 0
  /\ end_date = 0
  /\ filtered_df = <<>>
  /\ kpi = NoKpi
  /\ daily_sales = <<>>
  /\ product_metrics = <<>>
  /\ top_products = <<>>
  /\ store_metrics = <<>>
  /\ hourly_data = <<>>
  /\ daily_patterns = <<>>
  /\ locals = {}
  /\ rendered = <<>>
  /\ outcome = "running"
  /\ loaded = <<>>

\* ------------------------------------------------------------------------
\* main()
\* ------------------------------------------------------------------------

\* Lines 31-38: load the table; an empty table ends the pass.
LoadData ==
  /\ pc = "start"
  /\ df' = load_data(csv)
  /\ loaded' = IF loaded = <<>> THEN <<load_data(csv)>> ELSE loaded
  /\ locals' = locals \cup {"df"}
  /\ \/ /\ load_data(csv) = <<>>
        /\ pc' = "done"
        /\ outcome' = "empty table"
     \/ /\ load_data(csv) # <<>>
        /\ pc' = "sidebar"
        /\ outcome' = outcome
  /\ UNCHANGED <<csv, trigger, session, min_date, max_date, start_date,
                 end_date, filtered_df, aggregates, rendered>>

\* Lines 40-63: the sidebar.  The date-range widget returns its session
\* value, by default the whole range of the table; date_range[1] raises
\* IndexError when the value holds one date.  The multiselect returns its
\* session value, by default every store of the table.
SidebarFilters ==
  /\ pc = "sidebar"
  /\ LET lo == DateOf(MinOf(Elements(ColTransactionDate(df))))
         hi == DateOf(MaxOf(Elements(ColTransactionDate(df))))
         value == IF "Select Date Range" \in widgets THEN date_range ELSE <<lo, hi>>
         options == Elements(Unique(ColStoreLocation(df)))
         stores == IF "Select Stores" \in widgets THEN selected_stores ELSE options
     IN /\ min_date' = lo
        /\ max_date' = hi
        /\ date_range' = value
        /\ start_date' = ToDatetime(value[1])
        /\ \/ /\ Len(value) < 2
              /\ end_date' = end_date
              /\ selected_stores' = selected_stores
              /\ widgets' = widgets \cup {"Select Date Range"}
              /\ locals' = locals \cup {"min_date", "max_date", "date_range", "start_date"}
              /\ rendered' = rendered \o <<"sidebar.header", "sidebar.date_input", "exception">>
              /\ pc' = "done"
              /\ outcome' = "IndexError"
           \/ /\ Len(value) >= 2
              /\ end_date' = ToDatetime(value[2]) + SecondsPerDay - 1
              /\ selected_stores' = stores
              /\ widgets' = widgets \cup {"Select Date Range", "Select Stores"}
              /\ locals' = locals \cup {"min_date", "max_date", "date_range", "start_date",
                                        "end_date", "selected_stores"}
              /\ rendered' = rendered \o <<"sidebar.header", "sidebar.date_input",
                                          "sidebar.multiselect">>
              /\ pc' = "filter"
              /\ outcome' = outcome
  /\ UNCHANGED <<csv, trigger, df, filtered_df, aggregates, loaded>>

\* Lines 65-73 with the filter narrowing df itself.
FilterDataInPlace ==
  /\ pc = "filter"
  /\ filtered_df' = FilterRows(df, start_date, end_date, selected_stores)
  /\ df' = FilterRows(df, start_date, end_date, selected_stores)
  /\ locals' = locals \cup {"filtered_df"}
  /\ rendered' = Append(rendered, "title")
  /\ pc' = "check"
  /\ UNCHANGED <<csv, trigger, session, min_date, max_date, start_date,
                 end_date, aggregates, outcome, loaded>>

\* Lines 65-73: the filtered table, then the page title.
FilterData ==
  /\ pc = "filter"
  /\ filtered_df' = FilterRows(df, start_date, end_date, selected_stores)
  /\ locals' = locals \cup {"filtered_df"}
  /\ rendered' = Append(rendered, "title")
  /\ pc' = "check"
  /\ UNCHANGED <<csv, trigger, session, df, min_date, max_date, start_date,
                 end_date, aggregates, outcome, loaded>>

\* Lines 75-78 without the return: the notice, then the pass goes on.
EmptyCheckNoReturn ==
  /\ pc = "check"
  /\ rendered' = IF filtered_df = <<>> THEN Append(rendered, "warning") ELSE rendered
  /\ pc' = "metrics"
  /\ UNCHANGED <<csv, trigger, session, df, min_date, max_date, start_date,
                 end_date, filtered_df, aggregates, locals, outcome, loaded>>

\* Lines 75-78: an empty filtered table ends the pass with a notice.
EmptyCheck ==
  /\ pc = "check"
  /\ \/ /\ filtered_df = <<>>
        /\ rendered' = Append(rendered, "warning")
        /\ pc' = "done"
        /\ outcome' = "no data"
     \/ /\ filtered_df # <<>>
        /\ rendered' = rendered
        /\ pc' = "metrics"
        /\ outcome' = outcome
  /\ UNCHANGED <<csv, trigger, session, df, min_date, max_date, start_date,
                 end_date, filtered_df, aggregates, locals, loaded>>

\* Lines 80-93: the four metrics.
TopLevelMetrics ==
  /\ pc = "metrics"
  /\ kpi' = Kpi(filtered_df)
  /\ locals' = locals \cup {"kpi"}
  /\ rendered' = Append(rendered, "metrics")
  /\ pc' = "trends"
  /\ UNCHANGED <<csv, trigger, session, df, min_date, max_date, start_date,
                 end_date, filtered_df, daily_sales, product_metrics,
                 top_products, store_metrics, hourly_data, daily_patterns,
                 outcome, loaded>>

\* Lines 95-115: the daily series and its line chart.
SalesTrends ==
  /\ pc = "trends"
  /\ daily_sales' = create_daily_metrics(filtered_df)
  /\ locals' = locals \cup {"daily_sales"}
  /\ rendered' = rendered \o <<"header Sales Trends", "fig_revenue">>
  /\ pc' = "products"
  /\ UNCHANGED <<csv, trigger, session, df, min_date, max_date, start_date,
                 end_date, filtered_df, kpi, product_metrics, top_products,
                 store_metrics, hourly_data, daily_patterns, outcome, loaded>>

\* Lines 117-159: the product metrics, the top-10 bar chart, the category pie.
ProductPerformance ==
  /\ pc = "products"
  /\ product_metrics' = create_product_metrics(filtered_df)
  /\ top_products' = nlargest(TopN, create_product_metrics(filtered_df))
  /\ locals' = locals \cup {"product_metrics"}
  /\ rendered' = rendered \o <<"header Product Performance", "fig_products", "fig_categories">>
  /\ pc' = "stores"
  /\ UNCHANGED <<csv, trigger, session, df, min_date, max_date, start_date,
                 end_date, filtered_df, kpi, daily_sales, store_metrics,
                 hourly_data, daily_patterns, outcome, loaded>>

\* Lines 161-185: the store metrics and their bar chart.
StorePerformance ==
  /\ pc = "stores"
  /\ store_metrics' = StoreMetrics(filtered_df)
  /\ locals' = locals \cup {"store_metrics"}
  /\ rendered' = rendered \o <<"header Store Performance", "fig_stores">>
  /\ pc' = "hourly"
  /\ UNCHANGED <<csv, trigger, session, df, min_date, max_date, start_date,
                 end_date, filtered_df, kpi, daily_sales, product_metrics,
                 top_products, hourly_data, daily_patterns, outcome, loaded>>

\* Lines 187-212: the hourly averages and their line chart.
HourlyPatterns ==
  /\ pc = "hourly"
  /\ hourly_data' = HourlyData(filtered_df)
  /\ locals' = locals \cup {"hourly_data"}
  /\ rendered' = rendered \o <<"header Time-based Analysis", "fig_hourly">>
  /\ pc' = "weekdays"
  /\ UNCHANGED <<csv, trigger, session, df, min_date, max_date, start_date,
                 end_date, filtered_df, kpi, daily_sales, product_metrics,
                 top_products, store_metrics, daily_patterns, outcome, loaded>>

\* Lines 214-236: the day-of-week averages and their bar chart.
WeekdayPatterns ==
  /\ pc = "weekdays"
  /\ daily_patterns' = DailyPatterns(filtered_df)
  /\ locals' = locals \cup {"daily_patterns"}
  /\ rendered' = Append(rendered, "fig_daily")
  /\ pc' = "dataset"
  /\ UNCHANGED <<csv, trigger, session, df, min_date, max_date, start_date,
                 end_date, filtered_df, kpi, daily_sales, product_metrics,
                 top_products, store_metrics, hourly_data, outcome, loaded>>

\* Lines 238-239: the filtered table itself; main() returns.
ViewDataset ==
  /\ pc = "dataset"
  /\ rendered' = Append(rendered, "dataframe")
  /\ pc' = "done"
  /\ outcome' = "rendered"
  /\ UNCHANGED <<csv, trigger, session, df, min_date, max_date, start_date,
                 end_date, filtered_df, aggregates, locals, loaded>>

\* ------------------------------------------------------------------------
\* The user
\* ------------------------------------------------------------------------

\* The user changes the date-range widget the last pass drew; the script
\* runs again from the top.
ChangeDateRange ==
  /\ pc = "done"
  /\ "sidebar.date_input" \in Elements(rendered)
  /\ \E value \in DateInputValues(min_date, max_date) :
       /\ value # date_range
       /\ date_range' = value
  /\ pc' = "start"
  /\ trigger' = "date range"
  /\ FreshLocals
  /\ UNCHANGED <<csv, selected_stores, widgets, loaded>>

\* The user changes the store multiselect the last pass drew; the script
\* runs again from the top.
ChangeStores ==
  /\ pc = "done"
  /\ "sidebar.multiselect" \in Elements(rendered)
  /\ \E stores \in SUBSET Elements(Unique(ColStoreLocation(df))) :
       /\ stores # selected_stores
       /\ selected_stores' = stores
  /\ pc' = "start"
  /\ trigger' = "store selection"
  /\ FreshLocals
  /\ UNCHANGED <<csv, date_range, widgets, loaded>>

Next ==
  \/ LoadData
  \/ SidebarFilters
  \/ FilterData
  \/ EmptyCheck
  \/ TopLevelMetrics
  \/ SalesTrends
  \/ ProductPerformance
  \/ StorePerformance
  \/ HourlyPatterns
  \/ WeekdayPatterns
  \/ ViewDataset
  \/ ChangeDateRange
  \/ ChangeStores

Spec == Init /\ [][Next]_vars

\* ------------------------------------------------------------------------
\* Properties
\* ------------------------------------------------------------------------

\* The sum of f over the index set S, taken in no particular order.
RECURSIVE SumOver(_, _)
SumOver(f, S) ==
  IF S = {} THEN 0
  ELSE LET x == CHOOSE x \in S : TRUE IN f[x] + SumOver(f, S \ {x})

Revenue(t) == SumOver([i \in DOMAIN t |-> t[i].total_price], DOMAIN t)

Bound(name) == name \in locals

\* A row qualifies for the selection: its calendar day lies in the selected
\* range, both ends included, and its store is selected.
Qualifies(row) ==
  /\ date_range[1] <= row.transaction_date \div SecondsPerDay
  /\ row.transaction_date \div SecondsPerDay <= date_range[2]
  /\ row.store_location \in selected_stores

\* C1: the filtered table holds exactly the rows of the loaded table whose
\* day lies in [start, end], both ends included, and whose store is
\* selected, in the order of the loaded table.
C1_FilterKeepsExactlyQualifyingRows ==
  Bound("filtered_df") => filtered_df = SelectSeq(df, Qualifies)

\* A row with a time of day on the last selected day is kept, while another
\* row is dropped.
C1_Witness ==
  /\ Bound("filtered_df")
  /\ Len(filtered_df) < Len(df)
  /\ \E i \in DOMAIN filtered_df :
       /\ filtered_df[i].transaction_date % SecondsPerDay # 0
       /\ filtered_df[i].transaction_date \div SecondsPerDay = date_range[2]

\* C2: with no store selected the filtered table is empty, whatever the
\* date range and the table.
C2_NoStoreKeepsNothing ==
  (Bound("filtered_df") /\ selected_stores = {}) => filtered_df = <<>>

\* No store is selected while the date range covers every row of a table
\* that has rows.
C2_Witness ==
  /\ Bound("filtered_df")
  /\ selected_stores = {}
  /\ df # <<>>
  /\ date_range = <<min_date, max_date>>
  /\ filtered_df = <<>>

ProductTypes(t) == {t[i].product_type : i \in DOMAIN t}

ProductGroups(t) == {<<t[i].product_category, t[i].product_type>> : i \in DOMAIN t}

\* C4 as claimed: the top 10 has at most min(10, distinct product_type)
\* rows, each earning strictly less than the row before it.
C4_TopTenStrictlyDescending ==
  Bound("product_metrics") =>
    /\ Len(top_products) <= Min2(TopN, Cardinality(ProductTypes(filtered_df)))
    /\ \A i \in 1..(Len(top_products) - 1) :
         top_products[i].total_price > top_products[i + 1].total_price

\* C4 as amended: the top 10 has at most min(10, distinct (product_category,
\* product_type) pairs) rows, none earning more than the row before it.
C4_TopTenDescending ==
  Bound("product_metrics") =>
    /\ Len(top_products) <= Min2(TopN, Cardinality(ProductGroups(filtered_df)))
    /\ \A i \in 1..(Len(top_products) - 1) :
         top_products[i].total_price >= top_products[i + 1].total_price

\* More than 10 product groups, of which 10 are charted, two of them with
\* the same revenue.
C4_Witness ==
  /\ Bound("product_metrics")
  /\ Len(product_metrics) > TopN
  /\ Len(top_products) = TopN
  /\ \E i \in 1..(Len(top_products) - 1) :
       top_products[i].total_price = top_products[i + 1].total_price

\* The rows of the filtered table that fall on the i-th weekday of day_order.
RowsOnWeekday(i) ==
  {j \in DOMAIN filtered_df :
     (((filtered_df[j].transaction_date \div SecondsPerDay) + 3) % 7) + 1 = i}

\* C5: the day-of-week view has 7 rows, Monday to Sunday, of the empty table
\* too; a weekday with rows carries the mean of their total_price, a weekday
\* without rows is there with a missing value.
C5_SevenWeekdays ==
  /\ Len(DailyPatterns(<<>>)) = 7
  /\ \A i \in 1..7 :
       DailyPatterns(<<>>)[i] = [day_of_week |-> day_order[i], total_price |-> NaN]
  /\ Bound("daily_patterns") =>
    /\ Len(daily_patterns) = 7
    /\ \A i \in 1..7 :
         LET mean == daily_patterns[i].total_price
             rows == RowsOnWeekday(i)
         IN /\ daily_patterns[i].day_of_week = day_order[i]
            /\ rows # {} =>
                 /\ mean.den > 0
                 /\ mean.num * Cardinality(rows) =
                      mean.den * SumOver([j \in DOMAIN filtered_df |->
                                            filtered_df[j].total_price], rows)
            /\ rows = {} => mean = NaN

\* The view is computed from a table that has several rows on one weekday,
\* rows on another weekday and no row on a third.
C5_Witness ==
  /\ Bound("daily_patterns")
  /\ \E i, j, k \in 1..7 :
       /\ Cardinality(RowsOnWeekday(i)) > 1
       /\ i # j
       /\ RowsOnWeekday(j) # {}
       /\ RowsOnWeekday(k) = {}

AggregateNames ==
  {"kpi", "daily_sales", "product_metrics", "store_metrics", "hourly_data",
   "daily_patterns"}

ViewElements ==
  {"metrics", "fig_revenue", "fig_products", "fig_categories", "fig_stores",
   "fig_hourly", "fig_daily", "dataframe"}

\* C6: once the filtered table is found empty the notice is shown and the
\* pass is over, with no aggregate computed and no view drawn; the KPI
\* summary is only computed on a non-empty filtered table.
C6_EmptySelectionEndsPass ==
  /\ (Bound("filtered_df") /\ filtered_df = <<>> /\ pc # "check") =>
       /\ pc = "done"
       /\ outcome = "no data"
       /\ "warning" \in Elements(rendered)
       /\ locals \cap AggregateNames = {}
       /\ Elements(rendered) \cap ViewElements = {}
  /\ Bound("kpi") => filtered_df # <<>>

\* A pass over a table that has rows ends with the notice.
C6_Witness ==
  /\ pc = "done"
  /\ df # <<>>
  /\ Bound("filtered_df")
  /\ filtered_df = <<>>
  /\ rendered[Len(rendered)] = "warning"

\* C7: total_revenue is the sum of total_price, total_transactions the
\* number of distinct transaction_id, total_items the sum of
\* transaction_qty, and avg_transaction_value is total_revenue over the
\* number of rows; the example of the specification gives 11.00, 2, 5.50, 3.
C7_KpiSummary ==
  Bound("kpi") =>
    /\ kpi.total_revenue = Revenue(filtered_df)
    /\ kpi.total_transactions =
         Cardinality({filtered_df[i].transaction_id : i \in DOMAIN filtered_df})
    /\ kpi.total_items =
         SumOver([i \in DOMAIN filtered_df |-> filtered_df[i].transaction_qty],
                 DOMAIN filtered_df)
    /\ kpi.avg_transaction_value.den > 0
    /\ kpi.avg_transaction_value.num * Len(filtered_df) =
         kpi.avg_transaction_value.den * Revenue(filtered_df)
    /\ filtered_df = load_data(<<RowPool[1], RowPool[2]>>) =>
         /\ kpi.total_revenue = 1100
         /\ kpi.total_transactions = 2
         /\ kpi.avg_transaction_value.num = 550 * kpi.avg_transaction_value.den
         /\ kpi.total_items = 3

\* The summary is computed on a table with more rows than transactions, so
\* the per-row mean is not revenue over transactions.
C7_Witness ==
  /\ Bound("kpi")
  /\ kpi.total_transactions < Len(filtered_df)
  /\ kpi.avg_transaction_value.num * kpi.total_transactions #
       kpi.avg_transaction_value.den * kpi.total_revenue

\* Some transaction_id of the filtered table is on two transaction_date
\* values.
SpansDates ==
  \E i, j \in DOMAIN filtered_df :
    /\ filtered_df[i].transaction_id = filtered_df[j].transaction_id
    /\ filtered_df[i].transaction_date # filtered_df[j].transaction_date

PerDayTransactions ==
  SumOver([g \in DOMAIN daily_sales |-> daily_sales[g].transaction_id],
          DOMAIN daily_sales)

\* C8: the KPI count of distinct transaction_id equals the sum of the
\* per-day distinct counts exactly when no transaction_id is on several
\* dates; otherwise the per-day sum is larger.
C8_PerDayCountsAddUpIffNoSpan ==
  (Bound("kpi") /\ Bound("daily_sales")) =>
    /\ (PerDayTransactions = kpi.total_transactions) <=> ~SpansDates
    /\ SpansDates => PerDayTransactions > kpi.total_transactions

\* A transaction on two dates next to a date with two rows of one
\* transaction.
C8_Witness ==
  /\ Bound("kpi")
  /\ Bound("daily_sales")
  /\ SpansDates
  /\ PerDayTransactions > kpi.total_transactions
  /\ Len(daily_sales) < Len(filtered_df)

\* C9: the loaded table stays what load_data() first returned, through the
\* filter, every aggregation and every later pass.
C9_LoadedTableUnchanged ==
  Bound("df") => df = loaded[1]

\* A later pass has filtered rows out and drawn every view.
C9_Witness ==
  /\ pc = "done"
  /\ outcome = "rendered"
  /\ trigger # "first run"
  /\ Len(filtered_df) < Len(df)
  /\ df = loaded[1]

\* The aggregates a pass has bound are those of the filtered table of the
\* current selection, and a view is only drawn after its aggregate.
FreshViews ==
  /\ Bound("filtered_df") =>
       filtered_df = SelectSeq(df, Qualifies)
  /\ Bound("kpi") => Bound("filtered_df") /\ kpi = Kpi(filtered_df)
  /\ Bound("daily_sales") => daily_sales = create_daily_metrics(filtered_df)
  /\ Bound("product_metrics") => product_metrics = create_product_metrics(filtered_df)
  /\ Bound("store_metrics") => store_metrics = StoreMetrics(filtered_df)
  /\ Bound("hourly_data") => hourly_data = HourlyData(filtered_df)
  /\ Bound("daily_patterns") => daily_patterns = DailyPatterns(filtered_df)
  /\ "metrics" \in Elements(rendered) => Bound("kpi")
  /\ "fig_revenue" \in Elements(rendered) => Bound("daily_sales")
  /\ "fig_products" \in Elements(rendered) => Bound("product_metrics")
  /\ "fig_stores" \in Elements(rendered) => Bound("store_metrics")
  /\ "fig_hourly" \in Elements(rendered) => Bound("hourly_data")
  /\ "fig_daily" \in Elements(rendered) => Bound("daily_patterns")
  /\ "dataframe" \in Elements(rendered) => Bound("filtered_df")

\* A pass a user input started has ended with every view drawn or with the
\* notice.
PassCompleted ==
  (pc = "done" /\ trigger # "first run") =>
    \/ outcome = "rendered" /\ ViewElements \subseteq Elements(rendered)
    \/ outcome = "no data" /\ "warning" \in Elements(rendered)

\* C10: every user input starts one pass that filters, aggregates and draws
\* in that order from the current selection and runs to completion, with
\* every view drawn or with the notice, before the next input is taken.
C10_EveryInputGetsOneFullPass ==
  /\ FreshViews
  /\ PassCompleted

=============================================================================
